---- MODULE Spec2Model ----
(***************************************************************************)
(* Traffic tracker: the collector (scheduled.ts), the prediction store and *)
(* the prediction/actual linker (predictions.ts), and the filter           *)
(* translation of the two query modules (queries.ts, analytics).           *)
(*                                                                         *)
(* Time is counted in whole minutes since 00:00 UTC of day 0.  Day 0 is    *)
(* Sunday 2024-01-14 and day 1 is Monday 2024-01-15 (Martin Luther King    *)
(* Jr. Day), so the modelled days contain a weekend day, a weekday, a      *)
(* holiday and a non-holiday.                                              *)
(*                                                                         *)
(* A timestamp string "YYYY-MM-DD<sep>HH:MM..." is the triple              *)
(* <<day, code of <sep>, minute of the day>>; SQLite compares two TEXT     *)
(* values byte by byte, which is the lexicographic order of the triples.   *)
(***************************************************************************)
EXTENDS Integers, Sequences, FiniteSets, TLC

VARIABLES now, trips, predictions, run, collection_log, linkLog, report

vars == <<now, trips, predictions, run, collection_log, linkLog, report>>

(* ------------------------------ bounds --------------------------------- *)
MaxDay == 1
MaxTrips == 2
MaxPreds == 2
MaxLogs == 2
MaxSamples == 4
MaxHeaderLen == 5
MaxRetries == 3
MaxSlotFailures == 1

(* ---------------------------- constants -------------------------------- *)
MinutesPerDay == 1440
ToleranceMinutes == 30
SepT == 84
SepSpace == 32
NULL == 0

(* Minutes of the day (UTC) at which the modelled events happen on day 0,   *)
(* the one minute at which they happen on each later day, and the          *)
(* on-the-hour minute a forecast targets.  13:00 UTC is 08:00 local.       *)
DayMarks == {750, 780, 810, 811}
LaterDayMarks == {750}
TargetMarks == {780}

Instants == DayMarks \cup { d * MinutesPerDay + m : d \in 1..MaxDay, m \in LaterDayMarks }
Targets == TargetMarks
FirstInstants == { t \in Instants : \A u \in Instants : t <= u }

(* duration_in_traffic_seconds of the Directions API's answers: 80 and 100 *)
(* minutes; the runs that read no duration fetch the first only.           *)
FetchedDurations == {4800, 6000}
LinkerDurations == {4800}
TrafficModels == {"best_guess", "pessimistic"}

Directions == {"outbound", "inbound"}

(* env.ROUTES: the configured routes; `active` is optional in a Route.     *)
ROUTES == << [id |-> "r1", active |-> "unset"],
             [id |-> "r2", active |-> "false"] >>

RouteIds == { ROUTES[i].id : i \in 1..Len(ROUTES) }

(* env.START_HOUR / env.END_HOUR / env.TIMEZONE defaults.                  *)
START_HOUR == 6
END_HOUR == 21
TzOffsetMinutes == 0 - 300

(* ----------------------------- strings --------------------------------- *)
(* Date.prototype.toISOString(): "YYYY-MM-DDTHH:MM:SS.sssZ".               *)
toISOString(t) == << t \div MinutesPerDay, SepT, t % MinutesPerDay >>

(* SQLite datetime('now'): "YYYY-MM-DD HH:MM:SS".                          *)
SqlDatetime(t) == << t \div MinutesPerDay, SepSpace, t % MinutesPerDay >>

(* formatLocalTimestamp(date, timezone): "YYYY-MM-DDTHH:MM:SS", local.     *)
formatLocalTimestamp(t) == toISOString(t + TzOffsetMinutes)

(* Byte-wise comparison of two TEXT values.                                *)
StrLess(a, b) ==
  \/ a[1] < b[1]
  \/ a[1] = b[1] /\ a[2] < b[2]
  \/ a[1] = b[1] /\ a[2] = b[2] /\ a[3] < b[3]

StrLeq(a, b) == a = b \/ StrLess(a, b)

(* The instant a timestamp string denotes, in minutes.                     *)
InstantOf(s) == s[1] * MinutesPerDay + s[3]

(* --------------------------- julianday() ------------------------------- *)
(* julianday(s) is the double nearest to the Julian day number of s.  The  *)
(* Julian day numbers of this century lie in [2^21, 2^22), where a double  *)
(* has a unit in the last place of 2^-31 day, and a midnight UTC (x.5) is  *)
(* exact.  One minute is 2^31/1440 = 1491308 + 4/45 ulps, so the double of *)
(* minute t is  t * 1491308 + round(4t/45)  ulps after the double of       *)
(* minute 0.  It is kept as the pair <<t, round(4t/45)>>: the second       *)
(* component is far below 1491308, so the numeric order of the values is   *)
(* the lexicographic order of the pairs.                                   *)
RoundNearest(n, d) == (2 * n + d) \div (2 * d)

julianday(s) == << InstantOf(s), RoundNearest(4 * InstantOf(s), 45) >>

(* ABS((julianday(a) - julianday(b)) * 24 * 60): the subtraction and the   *)
(* two multiplications are exact in double arithmetic.                     *)
AbsJdDiff(a, b) ==
  LET x == julianday(a)
      y == julianday(b)
  IN  IF x[1] >= y[1] THEN << x[1] - y[1], x[2] - y[2] >>
                      ELSE << y[1] - x[1], y[2] - x[2] >>

JdLeq(x, y) == x[1] < y[1] \/ (x[1] = y[1] /\ x[2] <= y[2])

(* "<= 30": 30 minutes are 30 * 1491308 + 2.67 ulps, so a difference is at *)
(* most 30 exactly when its pair is at most <<30, 2>>.                     *)
ToleranceBound == << ToleranceMinutes, (4 * ToleranceMinutes) \div 45 >>

(* ---------------------------- local time ------------------------------- *)
(* getLocalTime(timezone): the wall clock of the time zone.                *)
getLocalTime(t) == t + TzOffsetMinutes

getHours(local) == (local % MinutesPerDay) \div 60
getDay(local) == (local \div MinutesPerDay) % 7
LocalDate(local) == local \div MinutesPerDay

(* isHoliday(date): 2024-01-15 (day 1) is the only holiday date of         *)
(* getAllHolidayDates(2024) among the modelled days; the Friday before it  *)
(* (day -2) is flagged too but lies before day 0.                          *)
HolidayDays == {1}
isHoliday(local) == LocalDate(local) \in HolidayDays

isWithinCollectionHours_Inclusive(local) ==
  getHours(local) >= START_HOUR /\ getHours(local) <= END_HOUR

isWithinCollectionHours(local) ==
  getHours(local) >= START_HOUR /\ getHours(local) < END_HOUR

getActiveRoutes_All(routes) == routes

(* getActiveRoutes(routes): routes whose `active` is not false.            *)
getActiveRoutes(routes) == SelectSeq(routes, LAMBDA r : r.active /= "false")

(* --------------------------- initial state ----------------------------- *)
NoRun == [pc |-> "idle", now |-> 0, localTime |-> 0, queue |-> << >>,
          results |-> << >>, apiCallsMade |-> 0]

NoLink == [op |-> "none", routeId |-> "", updated |-> {}, changes |-> 0,
           again |-> FALSE]

NoReport == [op |-> "none"]

Init ==
  /\ now \in DayMarks
  /\ trips = << >>
  /\ predictions = << >>
  /\ run = NoRun
  /\ collection_log = << >>
  /\ linkLog = NoLink
  /\ report = NoReport

(* ------------------------------- clock --------------------------------- *)
Tick ==
  /\ \E t \in Instants : t > now /\ now' = t
  /\ linkLog' = NoLink
  /\ report' = NoReport
  /\ UNCHANGED <<trips, predictions, run, collection_log>>

Attempts_OutboundOnly(routes) ==
  [ k \in 1..Len(routes) |-> << routes[k].id, "outbound" >> ]

(* ----------------------------- collector ------------------------------- *)
(* The (route, direction) attempts of one run, in the order of the loop.   *)
Attempts(routes) ==
  [ k \in 1..(2 * Len(routes)) |->
      << routes[(k + 1) \div 2].id,
         IF k % 2 = 1 THEN "outbound" ELSE "inbound" >> ]

(* handleScheduled up to its first await: the two reads of the clock (now  *)
(* = new Date() and the new Date() of getLocalTime, the same minute or the *)
(* next), the window check on the second, and the routes.  A run outside   *)
(* the window returns at once; its reads stay in run until the next run.   *)
handleScheduled(localRead) ==
  /\ run.pc \in {"idle", "skipped"}
  /\ localRead \in {now, now + 1}
  /\ Len(collection_log) < MaxLogs
  /\ LET localTime == getLocalTime(localRead)
     IN  IF ~isWithinCollectionHours(localTime)
         THEN run' = [NoRun EXCEPT !.pc = "skipped", !.now = now,
                                   !.localTime = localTime]
         ELSE run' = [pc |-> "collecting", now |-> now, localTime |-> localTime,
                      queue |-> Attempts(getActiveRoutes(ROUTES)),
                      results |-> << >>, apiCallsMade |-> 0]
  /\ now' = localRead
  /\ linkLog' = NoLink
  /\ report' = NoReport
  /\ UNCHANGED <<trips, predictions, collection_log>>

(* The row collectDirection binds to its INSERT.                           *)
TripRow(routeId, direction, at, localTime, seconds) ==
  [ measured_at |-> toISOString(at),
    duration_in_traffic_seconds |-> seconds,
    measured_at_local |-> formatLocalTimestamp(at),
    direction |-> direction,
    route_id |-> routeId,
    day_of_week |-> getDay(localTime),
    hour_local |-> getHours(localTime),
    is_holiday |-> IF isHoliday(localTime) THEN 1 ELSE 0 ]

(* idx_unique_measurement ON trips(measured_at, direction, route_id).      *)
UniqueConflict(row) ==
  \E i \in 1..Len(trips) :
     /\ trips[i].measured_at = row.measured_at
     /\ trips[i].direction = row.direction
     /\ trips[i].route_id = row.route_id

(* A row an INSERT OR REPLACE has removed.                                  *)
Replaced(row) == [row EXCEPT !.route_id = "replaced"]

(* INSERT OR REPLACE INTO trips: the conflicting row is deleted and the    *)
(* new one gets the next id.                                               *)
InsertTrip_Replace(row) ==
  Append([ i \in 1..Len(trips) |->
             IF /\ trips[i].measured_at = row.measured_at
                /\ trips[i].direction = row.direction
                /\ trips[i].route_id = row.route_id
             THEN Replaced(trips[i]) ELSE trips[i] ], row)

(* INSERT INTO trips: a new row with the next AUTOINCREMENT id, or the     *)
(* statement fails on the unique index; the rows already stored are        *)
(* untouched either way.                                                   *)
InsertTrip(row) == IF UniqueConflict(row) THEN trips ELSE Append(trips, row)

(* One iteration half of the loop: apiCallsMade++, collectDirection, push  *)
(* of its result.  A failed fetch or a rejected INSERT is caught and       *)
(* becomes a failure result.  seconds is the duration_in_traffic_seconds   *)
(* of the Directions API's answer.                                         *)
collectDirection(seconds) ==
  /\ run.pc = "collecting"
  /\ run.queue /= << >>
  /\ \E fetchOk \in BOOLEAN :
       LET routeId == Head(run.queue)[1]
           direction == Head(run.queue)[2]
           row == TripRow(routeId, direction, run.now, run.localTime, seconds)
           inserted == fetchOk /\ ~UniqueConflict(row)
       IN  /\ inserted => Len(trips) < MaxTrips
           /\ trips' = IF fetchOk THEN InsertTrip(row) ELSE trips
           /\ run' = [run EXCEPT
                        !.queue = Tail(@),
                        !.results = Append(@, [success |-> inserted,
                                               direction |-> direction,
                                               routeId |-> routeId,
                                               error |-> IF ~fetchOk THEN "fetch"
                                                         ELSE IF ~inserted
                                                         THEN "insert" ELSE ""]),
                        !.apiCallsMade = @ + 1]
  /\ linkLog' = NoLink
  /\ report' = NoReport
  /\ UNCHANGED <<now, predictions, collection_log>>

(* The end of the run: overall status and logCollection.                   *)
logCollection ==
  /\ run.pc = "collecting"
  /\ run.queue = << >>
  /\ LET errors == SelectSeq(run.results, LAMBDA r : ~r.success)
         status == IF Len(errors) = 0 THEN "success" ELSE "error"
         errorMessage == [ k \in 1..Len(errors) |->
                             << errors[k].routeId, errors[k].direction,
                                errors[k].error >> ]
     IN  collection_log' = Append(collection_log,
                                  [status |-> status,
                                   error_message |-> errorMessage,
                                   api_calls_made |-> run.apiCallsMade])
  /\ run' = NoRun
  /\ linkLog' = NoLink
  /\ report' = NoReport
  /\ UNCHANGED <<now, trips, predictions>>

(* ------------------------- prediction store ---------------------------- *)
(* formatLocalTimestamp of predictions.ts: "YYYY-MM-DD HH:MM:SS", local.   *)
predictionsFormatLocalTimestamp(t) == SqlDatetime(t + TzOffsetMinutes)

(* A PredictionResult as the generators push it: predicted_for is the      *)
(* instant the Date holds, predicted_for_local the text formatted from it. *)
PredictionResult(routeId, direction, target, model, seconds) ==
  [ predicted_for |-> target,
    predicted_for_local |-> predictionsFormatLocalTimestamp(target),
    direction |-> direction,
    route_id |-> routeId,
    predicted_duration_seconds |-> seconds,
    traffic_model |-> model ]

(* The row storePredictions binds to its INSERT for one PredictionResult;  *)
(* actual_trip_id is not in the column list and starts NULL, is_holiday is *)
(* the literal 0 of the statement.  day_of_week and hour_local come from   *)
(* new Date(pred.predicted_for_local), the local text read as a date.      *)
StoredRow(pred, predictedAt) ==
  LET localTime == InstantOf(pred.predicted_for_local)
  IN  [ predicted_at |-> toISOString(predictedAt),
        predicted_for |-> toISOString(pred.predicted_for),
        predicted_for_local |-> pred.predicted_for_local,
        direction |-> pred.direction,
        route_id |-> pred.route_id,
        predicted_duration_seconds |-> pred.predicted_duration_seconds,
        traffic_model |-> pred.traffic_model,
        day_of_week |-> getDay(localTime),
        hour_local |-> getHours(localTime),
        is_holiday |-> 0,
        actual_trip_id |-> NULL ]

PredictionRow(routeId, direction, target, predictedAt, model, seconds) ==
  StoredRow(PredictionResult(routeId, direction, target, model, seconds),
            predictedAt)

(* storePredictions(db, predictions, predictedAt, timezone) for the        *)
(* forecasts of one slot (its outbound and its inbound forecast, as the    *)
(* generators push them); predictedAt is the caller's, the time the        *)
(* forecasts were generated, not later than the call.                      *)
storePredictions(routeId, target, predictedAt, model, outSeconds, inSeconds) ==
  /\ predictedAt <= now
  /\ Len(predictions) + 2 <= MaxPreds
  /\ predictions' = predictions \o
        << PredictionRow(routeId, "outbound", target, predictedAt, model,
                         outSeconds),
           PredictionRow(routeId, "inbound", target, predictedAt, model,
                         inSeconds) >>
  /\ linkLog' = NoLink
  /\ report' = NoReport
  /\ UNCHANGED <<now, trips, run, collection_log>>

(* ------------------------------ linker --------------------------------- *)
(* WHERE route_id = ? AND actual_trip_id IS NULL                           *)
(*   AND predicted_for < datetime('now')                                   *)
(* predicted_for holds the toISOString text, datetime('now') is text too,  *)
(* so "<" compares the two strings.                                        *)
UpdateWhere_NoNullCheck(p, routeId) ==
  /\ p.route_id = routeId
  /\ StrLess(p.predicted_for, SqlDatetime(now))

UpdateWhere(p, routeId) ==
  /\ p.route_id = routeId
  /\ p.actual_trip_id = NULL
  /\ StrLess(p.predicted_for, SqlDatetime(now))

SubqueryRows_NoTolerance(p) ==
  { i \in 1..Len(trips) :
      /\ trips[i].route_id = p.route_id
      /\ trips[i].direction = p.direction }

(* The rows of the subquery's FROM/WHERE for prediction p.                 *)
SubqueryRows(p) ==
  { i \in 1..Len(trips) :
      /\ trips[i].route_id = p.route_id
      /\ trips[i].direction = p.direction
      /\ JdLeq(AbsJdDiff(trips[i].measured_at, p.predicted_for),
               ToleranceBound) }

SubqueryResult_NoOrderBy(p) ==
  IF SubqueryRows(p) = {} THEN {NULL} ELSE SubqueryRows(p)

(* ORDER BY ABS(...) LIMIT 1: a row with the least sort key (any of them   *)
(* when several share it), NULL when there is no row.                      *)
SubqueryResult(p) ==
  LET rows == SubqueryRows(p)
      key(i) == AbsJdDiff(trips[i].measured_at, p.predicted_for)
  IN  IF rows = {} THEN {NULL}
      ELSE { i \in rows : \A j \in rows : JdLeq(key(i), key(j)) }

(* linkPredictionsToActuals(db, routeId): the UPDATE is one statement; it  *)
(* returns result.meta.changes, the number of rows the UPDATE wrote.       *)
linkPredictionsToActuals(routeId) ==
  /\ \E sel \in [1..Len(predictions) -> 0..Len(trips)] :
       /\ \A i \in 1..Len(predictions) :
            IF UpdateWhere(predictions[i], routeId)
            THEN sel[i] \in SubqueryResult(predictions[i])
            ELSE sel[i] = predictions[i].actual_trip_id
       /\ predictions' = [ i \in 1..Len(predictions) |->
                             [predictions[i] EXCEPT !.actual_trip_id = sel[i]] ]
  /\ LET updated == { i \in 1..Len(predictions) :
                          UpdateWhere(predictions[i], routeId) }
     IN  linkLog' = [op |-> "link", routeId |-> routeId,
                     updated |-> updated,
                     changes |-> Cardinality(updated),
                     again |-> (linkLog.op = "link" /\ linkLog.routeId = routeId)]
  /\ report' = NoReport
  /\ UNCHANGED <<now, trips, run, collection_log>>

(* ------------------------ prediction accuracy -------------------------- *)
RECURSIVE SumFn(_)
SumFn(f) ==
  IF DOMAIN f = {} THEN 0
  ELSE LET x == CHOOSE y \in DOMAIN f : TRUE
       IN  f[x] + SumFn([ y \in (DOMAIN f) \ {x} |-> f[y] ])

Abs(x) == IF x < 0 THEN 0 - x ELSE x

(* SQLite's ROUND(num / den) to an integer, half away from zero (den > 0). *)
SqlRound(num, den) ==
  IF num >= 0 THEN (2 * num + den) \div (2 * den)
  ELSE 0 - ((2 * (0 - num) + den) \div (2 * den))

(* FROM predictions p JOIN trips t ON p.actual_trip_id = t.id              *)
(* WHERE p.predicted_at < p.predicted_for: the predictions of the view.    *)
(* Both columns hold toISOString texts.                                    *)
ViewRows_NoAdvanceCheck ==
  { i \in 1..Len(predictions) :
      predictions[i].actual_trip_id \in 1..Len(trips) }

ViewRows ==
  { i \in 1..Len(predictions) :
      /\ predictions[i].actual_trip_id \in 1..Len(trips)
      /\ StrLess(predictions[i].predicted_at, predictions[i].predicted_for) }

(* p.predicted_duration_seconds - t.duration_in_traffic_seconds            *)
BiasSeconds_Swapped(i) ==
  trips[predictions[i].actual_trip_id].duration_in_traffic_seconds
    - predictions[i].predicted_duration_seconds

BiasSeconds(i) ==
  predictions[i].predicted_duration_seconds
    - trips[predictions[i].actual_trip_id].duration_in_traffic_seconds

(* GROUP BY p.route_id, p.direction, p.traffic_model, p.day_of_week,       *)
(* p.hour_local                                                            *)
GroupKey(p) ==
  [ route_id |-> p.route_id, direction |-> p.direction,
    traffic_model |-> p.traffic_model, day_of_week |-> p.day_of_week,
    hour_local |-> p.hour_local ]

(* The view prediction_accuracy: one row per group; an AVG is kept as the  *)
(* sum, to be divided by prediction_count.                                 *)
prediction_accuracy ==
  { LET g == { j \in ViewRows :
                 GroupKey(predictions[j]) = GroupKey(predictions[i]) }
    IN  [ key |-> GroupKey(predictions[i]),
          prediction_count |-> Cardinality(g),
          sum_predicted_seconds |->
            SumFn([ j \in g |-> predictions[j].predicted_duration_seconds ]),
          sum_actual_seconds |->
            SumFn([ j \in g |->
                      trips[predictions[j].actual_trip_id]
                        .duration_in_traffic_seconds ]),
          sum_error_seconds |-> SumFn([ j \in g |-> Abs(BiasSeconds(j)) ]),
          sum_bias_seconds |-> SumFn([ j \in g |-> BiasSeconds(j) ]) ] :
      i \in ViewRows }

(* getPredictionAccuracy: the rows of the view of one route and model;     *)
(* ROUND(avg / 60.0, 1) is kept in tenths of a minute.                     *)
getPredictionAccuracy(routeId, trafficModel) ==
  { [ direction |-> v.key.direction,
      day_of_week |-> v.key.day_of_week,
      hour_local |-> v.key.hour_local,
      prediction_count |-> v.prediction_count,
      avg_predicted_minutes |->
        SqlRound(v.sum_predicted_seconds, 6 * v.prediction_count),
      avg_actual_minutes |->
        SqlRound(v.sum_actual_seconds, 6 * v.prediction_count),
      avg_error_minutes |->
        SqlRound(v.sum_error_seconds, 6 * v.prediction_count),
      avg_bias_minutes |->
        SqlRound(v.sum_bias_seconds, 6 * v.prediction_count) ] :
      v \in { x \in prediction_accuracy :
                /\ x.key.route_id = routeId
                /\ x.key.traffic_model = trafficModel } }

(* A request for the accuracy of one route and model; report holds its     *)
(* response until the next event.                                          *)
AccuracyRequest(routeId, trafficModel) ==
  /\ report.op = "none"
  /\ report' = [op |-> "accuracy", routeId |-> routeId,
                trafficModel |-> trafficModel,
                rows |-> getPredictionAccuracy(routeId, trafficModel)]
  /\ linkLog' = NoLink
  /\ UNCHANGED <<now, trips, predictions, run, collection_log>>

(* ------------------------- filtered queries ---------------------------- *)
(* QueryFilters: a field that is not set is NoDate / "none" / FALSE.  The  *)
(* requests ask for the rows from day 1 on, up to day 0, both or neither.  *)
NoDate == 0 - 1

FilterSpecs ==
  [ startDate : {NoDate, 1},
    endDate : {NoDate, 0},
    direction : {"none"} \cup Directions,
    routeId : {"none"} \cup RouteIds,
    excludeHolidays : BOOLEAN,
    weekdaysOnly : BOOLEAN ]

(* One condition of a WHERE clause with its bound value.                   *)
Condition(column, op, value) == [column |-> column, op |-> op, value |-> value]

(* buildWhereClause of queries.ts: the conditions it pushes, in order.     *)
buildWhereClause(filters) ==
     (IF filters.startDate /= NoDate
      THEN << Condition("measured_at_local", ">=",
                        << filters.startDate, SepT, 0 >>) >>
      ELSE << >>)
  \o (IF filters.endDate /= NoDate
      THEN << Condition("measured_at_local", "<=",
                        << filters.endDate, SepT, MinutesPerDay - 1 >>) >>
      ELSE << >>)
  \o (IF filters.direction /= "none"
      THEN << Condition("direction", "=", filters.direction) >>
      ELSE << >>)
  \o (IF filters.excludeHolidays
      THEN << Condition("is_holiday", "=", 0) >>
      ELSE << >>)

(* buildWhereClause of the analytics module: the same, and route_id.       *)
analyticsBuildWhereClause(filters) ==
     (IF filters.startDate /= NoDate
      THEN << Condition("measured_at_local", ">=",
                        << filters.startDate, SepT, 0 >>) >>
      ELSE << >>)
  \o (IF filters.endDate /= NoDate
      THEN << Condition("measured_at_local", "<=",
                        << filters.endDate, SepT, MinutesPerDay - 1 >>) >>
      ELSE << >>)
  \o (IF filters.direction /= "none"
      THEN << Condition("direction", "=", filters.direction) >>
      ELSE << >>)
  \o (IF filters.excludeHolidays
      THEN << Condition("is_holiday", "=", 0) >>
      ELSE << >>)
  \o (IF filters.routeId /= "none"
      THEN << Condition("route_id", "=", filters.routeId) >>
      ELSE << >>)

(* SQLite's evaluation of one condition, and of their conjunction, on a    *)
(* trips row.                                                              *)
EvalCondition(c, row) ==
  CASE c.column = "measured_at_local" /\ c.op = ">=" ->
         StrLeq(c.value, row.measured_at_local)
    [] c.column = "measured_at_local" /\ c.op = "<=" ->
         StrLeq(row.measured_at_local, c.value)
    [] c.column = "direction" -> row.direction = c.value
    [] c.column = "is_holiday" -> row.is_holiday = c.value
    [] c.column = "route_id" -> row.route_id = c.value

EvalWhere(clause, row) ==
  \A k \in 1..Len(clause) : EvalCondition(clause[k], row)

(* SELECT COUNT( * ) FROM trips <clause>                                   *)
getTotalSamples(filters) ==
  Cardinality({ i \in 1..Len(trips) :
                  EvalWhere(buildWhereClause(filters), trips[i]) })

(* The ids of the rows an analytics query reads.                           *)
AnalyticsRows(filters) ==
  { i \in 1..Len(trips) :
      EvalWhere(analyticsBuildWhereClause(filters), trips[i]) }

(* Math.round(num / den): the nearest integer, a half rounded up.          *)
MathRound(num, den) == (2 * num + den) \div (2 * den)

(* Math.floor(Math.sqrt(x)) for an integer x >= 0, by bisection.           *)
RECURSIVE SqrtBetween(_, _, _)
SqrtBetween(x, lo, hi) ==
  IF hi - lo <= 1 THEN lo
  ELSE LET mid == (lo + hi) \div 2
       IN  IF mid * mid <= x THEN SqrtBetween(x, mid, hi)
           ELSE SqrtBetween(x, lo, mid)

SqrtFloor(x) == SqrtBetween(x, 0, 46341)

(* byDirection: the directions of the rows read, in a Map that has a key   *)
(* only for a direction with a row.                                        *)
byDirection_AllDirections(filters) == Directions

byDirection(filters) ==
  { trips[i].direction : i \in AnalyticsRows(filters) }

(* The row ids of one direction in the order the query returns them.       *)
Values(filters, d) ==
  { i \in AnalyticsRows(filters) : trips[i].direction = d }

(* values.sort((a, b) => a - b) on the rows ORDER BY direction, minutes:   *)
(* the durations (in seconds) in ascending order.                          *)
RECURSIVE Sorted_StoreOrder(_)
Sorted_StoreOrder(ids) ==
  IF ids = {} THEN << >>
  ELSE LET i == CHOOSE x \in ids : \A y \in ids : x <= y
       IN  << trips[i].duration_in_traffic_seconds >>
             \o Sorted_StoreOrder(ids \ {i})

RECURSIVE Sorted(_)
Sorted(ids) ==
  IF ids = {} THEN << >>
  ELSE LET i == CHOOSE x \in ids : \A y \in ids :
                  trips[x].duration_in_traffic_seconds
                    <= trips[y].duration_in_traffic_seconds
       IN  << trips[i].duration_in_traffic_seconds >> \o Sorted(ids \ {i})

(* percentile(sorted, p) of durations in seconds; the result is kept in    *)
(* hundredths of a second (1/6000 minute), which holds the interpolation   *)
(* exactly: index = p / 100 * (n - 1), weight = index - lower.             *)
percentile_SwappedWeight(sorted, p) ==
  IF Len(sorted) = 0 THEN 0
  ELSE LET index100 == p * (Len(sorted) - 1)
           lower == index100 \div 100
           upper == IF index100 % 100 = 0 THEN lower ELSE lower + 1
           weight100 == index100 - 100 * lower
       IN  IF lower = upper THEN 100 * sorted[lower + 1]
           ELSE sorted[lower + 1] * weight100
                  + sorted[upper + 1] * (100 - weight100)

percentile(sorted, p) ==
  IF Len(sorted) = 0 THEN 0
  ELSE LET index100 == p * (Len(sorted) - 1)
           lower == index100 \div 100
           upper == IF index100 % 100 = 0 THEN lower ELSE lower + 1
           weight100 == index100 - 100 * lower
       IN  IF lower = upper THEN 100 * sorted[lower + 1]
           ELSE sorted[lower + 1] * (100 - weight100)
                  + sorted[upper + 1] * weight100

(* n * sum(x^2) - sum(x)^2 = n^2 * variance, as the sum of the squared     *)
(* differences of the pairs.                                               *)
SquaredSpread(sorted) ==
  SumFn([ pr \in { q \in (1..Len(sorted)) \X (1..Len(sorted)) : q[1] < q[2] }
            |-> (sorted[pr[1]] - sorted[pr[2]]) * (sorted[pr[1]] - sorted[pr[2]]) ])

(* Math.round(stdDev * 10) of the minutes: sqrt(spread) / (6 n) rounded.   *)
StdDevTenths(sorted) ==
  ((SqrtFloor(SquaredSpread(sorted)) \div (3 * Len(sorted))) + 1) \div 2

(* getStatisticalSummary: one summary per direction that has a row; the    *)
(* minutes are kept in tenths, as Math.round(x * 10) / 10 leaves them.     *)
(* coefficient_of_variation, which no other function reads, is left out.  *)
getStatisticalSummary(filters) ==
  { LET sorted == Sorted(Values(filters, d))
        n == Len(sorted)
    IN  [ direction |-> d,
          sample_count |-> n,
          mean_minutes |->
            MathRound(SumFn([ k \in 1..n |-> sorted[k] ]), 6 * n),
          median_minutes |-> MathRound(percentile(sorted, 50), 600),
          p75_minutes |-> MathRound(percentile(sorted, 75), 600),
          p90_minutes |-> MathRound(percentile(sorted, 90), 600),
          p95_minutes |-> MathRound(percentile(sorted, 95), 600),
          std_dev_minutes |-> StdDevTenths(sorted),
          min_minutes |-> MathRound(sorted[1], 6),
          max_minutes |-> MathRound(sorted[n], 6) ] :
      d \in { x \in byDirection(filters) : Values(filters, x) /= {} } }

(* The boundaries of getTrafficPatterns from the rounded means and         *)
(* deviations of the summaries: overallMean - 0.5 * overallStdDev,         *)
(* overallMean, + 0.5 *, + 1.5 *, each as a numerator over den (minutes).  *)
Thresholds(stats) ==
  LET k == Cardinality(stats)
      means == SumFn([ x \in stats |-> x.mean_minutes ])
      devs == SumFn([ x \in stats |-> x.std_dev_minutes ])
  IN  [ den |-> 20 * k,
        veryFastMax |-> 2 * means - devs,
        fastMax |-> 2 * means,
        moderateMax |-> 2 * means + devs,
        slowMax |-> 2 * means + 3 * devs ]

PatternTypes == {"very_fast", "fast", "moderate", "slow", "very_slow"}

(* duration_in_traffic_seconds / 60.0 <= threshold                         *)
AtMost(seconds, numerator, den) == seconds * den <= 60 * numerator

(* CASE WHEN ... <= ? THEN ... ELSE 'very_slow' END as pattern_type        *)
pattern_type_Strict(seconds, th) ==
  CASE seconds * th.den < 60 * th.veryFastMax -> "very_fast"
    [] seconds * th.den < 60 * th.fastMax -> "fast"
    [] seconds * th.den < 60 * th.moderateMax -> "moderate"
    [] seconds * th.den < 60 * th.slowMax -> "slow"
    [] OTHER -> "very_slow"

pattern_type_NoElse(seconds, th) ==
  CASE AtMost(seconds, th.veryFastMax, th.den) -> "very_fast"
    [] AtMost(seconds, th.fastMax, th.den) -> "fast"
    [] AtMost(seconds, th.moderateMax, th.den) -> "moderate"
    [] AtMost(seconds, th.slowMax, th.den) -> "slow"
    [] OTHER -> "null"

pattern_type(seconds, th) ==
  CASE AtMost(seconds, th.veryFastMax, th.den) -> "very_fast"
    [] AtMost(seconds, th.fastMax, th.den) -> "fast"
    [] AtMost(seconds, th.moderateMax, th.den) -> "moderate"
    [] AtMost(seconds, th.slowMax, th.den) -> "slow"
    [] OTHER -> "very_slow"

(* Math.round((occurrence_count / total) * 1000) / 10, in tenths.          *)
Percentage_Floor(count, total) == 10 * ((100 * count) \div total)

Percentage(count, total) == MathRound(1000 * count, total)

(* getTrafficPatterns: no pattern when there is no summary; else the five  *)
(* patterns, each with the count of its GROUP BY row (0 without a row) and *)
(* its share of total, the sum of the counts of all the GROUP BY rows.     *)
getTrafficPatterns(filters) ==
  LET stats == getStatisticalSummary(filters)
      th == Thresholds(stats)
      rows == AnalyticsRows(filters)
      count(t) ==
        Cardinality({ i \in rows :
          pattern_type(trips[i].duration_in_traffic_seconds, th) = t })
      total == Cardinality(rows)
  IN  IF stats = {} THEN << >>
      ELSE [ t \in PatternTypes |->
               [ max_threshold |->
                   CASE t = "very_fast" -> [num |-> th.veryFastMax, den |-> th.den]
                     [] t = "fast" -> [num |-> th.fastMax, den |-> th.den]
                     [] t = "moderate" -> [num |-> th.moderateMax, den |-> th.den]
                     [] t = "slow" -> [num |-> th.slowMax, den |-> th.den]
                     [] OTHER -> [num |-> 999, den |-> 1],
                 occurrence_count |-> count(t),
                 percentage |-> IF count(t) = 0 THEN 0
                                ELSE Percentage(count(t), total) ] ]

(* getReliabilityMetrics with its default confidence levels: one row per   *)
(* key of byDirection and level, Math.round(percentile) in whole minutes.  *)
confidenceLevels == << 50, 75, 80, 90, 95 >>

getReliabilityMetrics(filters) ==
  { [ direction |-> d,
      confidence_level |-> confidenceLevels[k],
      duration_minutes |->
        MathRound(percentile(Sorted(Values(filters, d)), confidenceLevels[k]),
                  6000) ] :
      d \in byDirection(filters), k \in 1..Len(confidenceLevels) }

(* getHourlyVariance: hourly_stats counts the filtered rows of each        *)
(* (hour_local, direction); hourly_variance joins the filtered rows to it  *)
(* and groups them by the same key.                                        *)
getHourlyVariance(filters) ==
  LET hourly_stats ==
        { [hour_local |-> trips[i].hour_local,
           direction |-> trips[i].direction,
           sample_count |->
             Cardinality({ j \in AnalyticsRows(filters) :
                             /\ trips[j].hour_local = trips[i].hour_local
                             /\ trips[j].direction = trips[i].direction })] :
          i \in AnalyticsRows(filters) }
  IN  { [hour |-> hs.hour_local, direction |-> hs.direction,
         sample_count |-> hs.sample_count] :
          hs \in { h \in hourly_stats :
                     \E i \in AnalyticsRows(filters) :
                        /\ trips[i].hour_local = h.hour_local
                        /\ trips[i].direction = h.direction } }

(* A request that reads the three reports for one FilterSpec; report holds *)
(* its response until the next event.                                      *)
Query(filters) ==
  /\ report.op = "none"
  /\ report' = [op |-> "query", filters |-> filters,
                total |-> getTotalSamples(filters),
                summary |-> getStatisticalSummary(filters),
                hourly |-> getHourlyVariance(filters)]
  /\ UNCHANGED <<now, trips, predictions, run, collection_log, linkLog>>

(* ---------------------------- specification ---------------------------- *)
(* The collector, the prediction store and the linker.  The linker reads  *)
(* no duration, no traffic model and no predicted_at: one value of each is *)
(* stored (the forecasts were generated at the first instant).             *)
Next ==
  \/ Tick
  \/ \E t \in Instants : handleScheduled(t)
  \/ \E s \in LinkerDurations : collectDirection(s)
  \/ logCollection
  \/ \E r \in RouteIds, t \in Targets, at \in FirstInstants,
        s \in LinkerDurations :
        storePredictions(r, t, at, "best_guess", s, s)
  \/ \E r \in RouteIds : linkPredictionsToActuals(r)

Spec == Init /\ [][Next]_vars

(* The collector and the analytics and data requests.                      *)
NextQ ==
  \/ Tick
  \/ \E t \in Instants : handleScheduled(t)
  \/ \E s \in LinkerDurations : collectDirection(s)
  \/ logCollection
  \/ \E f \in FilterSpecs : Query(f)

SpecQ == Init /\ [][NextQ]_vars

(* The collector around the boundaries of its window: the minutes before   *)
(* and at 00:00, 06:00, 08:00 and 21:00 local (05:00, 11:00, 13:00 UTC of  *)
(* day 0 and 02:00 UTC of day 1).                                          *)
CollectorInstants == {299, 300, 659, 660, 779, 780, 1559, 1560}

InitC ==
  /\ now \in CollectorInstants
  /\ trips = << >>
  /\ predictions = << >>
  /\ run = NoRun
  /\ collection_log = << >>
  /\ linkLog = NoLink
  /\ report = NoReport

TickC ==
  /\ \E t \in CollectorInstants : t > now /\ now' = t
  /\ linkLog' = NoLink
  /\ report' = NoReport
  /\ UNCHANGED <<trips, predictions, run, collection_log>>

NextC ==
  \/ TickC
  \/ \E t \in CollectorInstants : handleScheduled(t)
  \/ \E s \in LinkerDurations : collectDirection(s)
  \/ logCollection

SpecC == InitC /\ [][NextC]_vars

(* The instants in ascending order.                                        *)
RECURSIVE Ascending(_)
Ascending(S) ==
  IF S = {} THEN << >>
  ELSE LET m == CHOOSE x \in S : \A y \in S : x <= y
       IN  << m >> \o Ascending(S \ {m})

(* The collection_log row of the run at one instant that left the rows of  *)
(* that instant in the store: its failed attempts are the ones that        *)
(* stored nothing.                                                         *)
LoggedRun(store, at) ==
  LET attempts == Attempts(getActiveRoutes(ROUTES))
      failed == SelectSeq(attempts, LAMBDA a :
                  ~ \E k \in 1..Len(store) :
                       /\ InstantOf(store[k].measured_at) = at
                       /\ store[k].route_id = a[1]
                       /\ store[k].direction = a[2])
      errors == [ k \in 1..Len(failed) |->
                    << failed[k][1], failed[k][2], "fetch" >> ]
  IN  [status |-> IF Len(failed) = 0 THEN "success" ELSE "error",
       error_message |-> errors,
       api_calls_made |-> Len(attempts)]

(* The collection_log of the runs that filled a store.                     *)
LogOf(store) ==
  LET runs == Ascending({ InstantOf(store[k].measured_at) :
                            k \in 1..Len(store) })
  IN  [ k \in 1..Len(runs) |-> LoggedRun(store, runs[k]) ]

(* The stores the accuracy requests are applied to.  The trips are what    *)
(* up to MaxTrips successful attempts of the collector's runs of the first *)
(* day leave (a later day's row is more than a day away from every         *)
(* forecast's target): rows of the active routes in the order of the runs, *)
(* outbound before inbound within a run, with the durations of the API's   *)
(* answers.  The predictions are what one call of storePredictions         *)
(* leaves, or nothing.                                                     *)
RunOrder(a, b) ==
  \/ a[1] < b[1]
  \/ a[1] = b[1] /\ a[2] = b[2] /\ a[3] = "outbound" /\ b[3] = "inbound"

CollectedStores ==
  LET routeIds == { getActiveRoutes(ROUTES)[i].id :
                      i \in 1..Len(getActiveRoutes(ROUTES)) }
      runs == { t \in DayMarks : isWithinCollectionHours(getLocalTime(t)) }
      slots == runs \X routeIds \X Directions \X FetchedDurations
  IN  UNION { { [ k \in 1..n |->
                    TripRow(g[k][2], g[k][3], g[k][1], getLocalTime(g[k][1]),
                            g[k][4]) ] :
                g \in { h \in [1..n -> slots] :
                          \A k \in 1..(n - 1) : RunOrder(h[k], h[k + 1]) } } :
              n \in 0..MaxTrips }

StoredPredictions ==
  { << >> } \cup
  { << PredictionRow(r, "outbound", t, at, m, s),
       PredictionRow(r, "inbound", t, at, m, s) >> :
      r \in RouteIds, t \in Targets, at \in DayMarks, m \in TrafficModels,
      s \in FetchedDurations }

InitP ==
  /\ now \in { t \in Instants : \A u \in Instants : u <= t }
  /\ trips \in CollectedStores
  /\ predictions \in { p \in StoredPredictions : Len(p) <= MaxPreds }
  /\ run = NoRun
  /\ collection_log = LogOf(trips)
  /\ linkLog = NoLink
  /\ report = NoReport

(* The linker and the accuracy requests.                                   *)
NextP ==
  \/ \E r \in RouteIds : linkPredictionsToActuals(r)
  \/ \E r \in RouteIds, m \in TrafficModels : AccuracyRequest(r, m)

SpecP == InitP /\ [][NextP]_vars

(* ---------------------- the statistics requests ------------------------ *)
(* The stores the statistics are applied to: up to MaxSamples rows of one  *)
(* route with durations of 10, 10.5 and 30 minutes in any order and        *)
(* direction, and two stores of one direction with the samples             *)
(* 10, 20, .., 50 and 60, 70, .., 120 minutes.                             *)
SampleDurations == {600, 630, 1800}
KnownArray == << 600, 1200, 1800, 2400, 3000 >>
ScenarioSamples == << 3600, 4200, 4800, 5400, 6000, 6600, 7200 >>
FirstSampleMarks == {750}

StoreOf(durations, directions) ==
  [ k \in 1..Len(durations) |->
      LET at == (CHOOSE m \in FirstSampleMarks : TRUE) + k
      IN  TripRow("r1", directions[k], at, getLocalTime(at), durations[k]) ]

SampleStores ==
  UNION { { StoreOf(ds, rs) : ds \in [1..n -> SampleDurations],
                              rs \in [1..n -> Directions] } :
          n \in 1..MaxSamples }
  \cup { StoreOf(KnownArray, [ k \in 1..Len(KnownArray) |-> "outbound" ]),
         StoreOf(ScenarioSamples,
                 [ k \in 1..Len(ScenarioSamples) |-> "outbound" ]) }

InitS ==
  /\ now \in { MinutesPerDay + m : m \in LaterDayMarks }
  /\ trips \in SampleStores
  /\ predictions = << >>
  /\ run = NoRun
  /\ collection_log = LogOf(trips)
  /\ linkLog = NoLink
  /\ report = NoReport

(* The filters of the statistics requests: a direction or none.            *)
AnalyticsFilters ==
  { f \in FilterSpecs :
      /\ f.startDate = NoDate /\ f.endDate = NoDate /\ f.routeId = "none"
      /\ ~f.excludeHolidays /\ ~f.weekdaysOnly }

(* A request for the summaries, the traffic patterns and the reliability   *)
(* metrics of one FilterSpec.                                              *)
AnalyticsRequest(filters) ==
  /\ report.op = "none"
  /\ report' = [op |-> "analytics", filters |-> filters,
                summary |-> getStatisticalSummary(filters),
                patterns |-> getTrafficPatterns(filters),
                reliability |-> getReliabilityMetrics(filters)]
  /\ UNCHANGED <<now, trips, predictions, run, collection_log, linkLog>>

(* percentile applied to the sorted values of one direction.               *)
ApplyPercentile(filters, d, p) ==
  /\ report.op = "none"
  /\ report' = [op |-> "percentile", sorted |-> Sorted(Values(filters, d)),
                p |-> p,
                value |-> percentile(Sorted(Values(filters, d)), p)]
  /\ UNCHANGED <<now, trips, predictions, run, collection_log, linkLog>>

NextS ==
  \/ \E f \in AnalyticsFilters : AnalyticsRequest(f)
  \/ \E f \in AnalyticsFilters, d \in Directions,
        k \in 1..Len(confidenceLevels) :
        ApplyPercentile(f, d, confidenceLevels[k])

SpecS == InitS /\ [][NextS]_vars

(* ----------------------- the protected endpoints ----------------------- *)
(* A header value or a key is a string, kept as the sequence of its        *)
(* symbols: the word Bearer, the space, and the characters k and x.        *)
(* request.headers.get returns null for an absent header and the value     *)
(* without leading and trailing whitespace otherwise.                      *)
HeaderSymbols == {"Bearer", " ", "k", "x"}
NoHeader == << "null" >>
API_ACCESS_KEY == << "k" >>

AuthorizationHeaders ==
  { NoHeader } \cup
  UNION { { h \in [1..n -> HeaderSymbols] :
              n > 0 => (h[1] /= " " /\ h[n] /= " ") } :
          n \in 0..MaxHeaderLen }

(* String.prototype.split(' '): the pieces between the spaces.             *)
RECURSIVE Split(_)
Split(str) ==
  IF \A i \in 1..Len(str) : str[i] /= " " THEN << str >>
  ELSE LET i == CHOOSE j \in 1..Len(str) :
                  str[j] = " " /\ \A k \in 1..(j - 1) : str[k] /= " "
       IN  << SubSeq(str, 1, i - 1) >> \o Split(SubSeq(str, i + 1, Len(str)))

(* timingSafeEqual(a, b): false on different lengths, else true when no    *)
(* position differs.                                                       *)
timingSafeEqual(a, b) ==
  IF Len(a) /= Len(b) THEN FALSE
  ELSE \A i \in 1..Len(a) : a[i] = b[i]

(* verifyAuth(request, apiAccessKey): "true", "false", or "TypeError" when *)
(* the header has one piece only, so that token is undefined and           *)
(* timingSafeEqual reads the length of undefined.                          *)
verifyAuth(authHeader, apiAccessKey) ==
  IF authHeader = NoHeader \/ authHeader = << >> THEN "false"
  ELSE LET pieces == Split(authHeader)
       IN  IF pieces[1] /= << "Bearer" >> THEN "false"
           ELSE IF Len(pieces) < 2 THEN "TypeError"
           ELSE IF timingSafeEqual(pieces[2], apiAccessKey) THEN "true"
           ELSE "false"

(* The query parameters of a request: a date is a calendar day or absent   *)
(* (NoDate), the other two any text or absent ("none").                    *)
SearchParams ==
  [ startDate : {NoDate, 0, 1},
    endDate : {NoDate, 0, 1},
    direction : {"none", "outbound", "north"},
    excludeHolidays : {"none", "true", "false"} ]

(* parseFilters(url): the dates as given, a direction only if it is one    *)
(* of the two, excludeHolidays only if it is the text true.                *)
parseFilters(params) ==
  [ startDate |-> params.startDate,
    endDate |-> params.endDate,
    direction |-> IF params.direction \in Directions
                  THEN params.direction ELSE "none",
    excludeHolidays |-> params.excludeHolidays = "true" ]

NoFilters ==
  [ startDate |-> NoDate, endDate |-> NoDate, direction |-> "none",
    excludeHolidays |-> FALSE ]

(* SELECT * FROM trips <clause>: the ids of the rows read.                 *)
getAllTrips(filters) ==
  { i \in 1..Len(trips) : EvalWhere(buildWhereClause(filters), trips[i]) }

(* The queries the two handlers run once the request is authorized.        *)
DataQueries ==
  << "getTotalSamples", "getHourlyData", "getDayHourData", "getRouteData",
     "getRecentTrips", "getBestWorstSlots" >>
ExportQueries == << "getAllTrips" >>

(* The response of a protected handler to a request, with the queries it   *)
(* ran; an exception of the handler becomes the 500 of fetch's catch.      *)
ProtectedResponse(op, authHeader, params, queries) ==
  LET auth == verifyAuth(authHeader, API_ACCESS_KEY)
      filters == parseFilters(params)
  IN  CASE auth = "TypeError" ->
             [op |-> op, authorization |-> authHeader, status |-> 500,
              parsed |-> FALSE, filters |-> NoFilters, queries |-> << >>,
              rows |-> 0]
        [] auth = "false" ->
             [op |-> op, authorization |-> authHeader, status |-> 401,
              parsed |-> FALSE, filters |-> NoFilters, queries |-> << >>,
              rows |-> 0]
        [] auth = "true" ->
             [op |-> op, authorization |-> authHeader, status |-> 200,
              parsed |-> TRUE, filters |-> filters, queries |-> queries,
              rows |-> IF op = "data" THEN getTotalSamples(filters)
                       ELSE Cardinality(getAllTrips(filters))]

(* handleApiData and handleApiExport; report holds the response.           *)
handleApiData(authHeader, params) ==
  /\ report.op = "none"
  /\ report' = ProtectedResponse("data", authHeader, params, DataQueries)
  /\ UNCHANGED <<now, trips, predictions, run, collection_log, linkLog>>

handleApiExport(authHeader, params) ==
  /\ report.op = "none"
  /\ report' = ProtectedResponse("export", authHeader, params, ExportQueries)
  /\ UNCHANGED <<now, trips, predictions, run, collection_log, linkLog>>

(* The stores the requests read: what one run of the collector leaves.    *)
FirstRunStores ==
  { store \in CollectedStores :
      \A k \in 1..Len(store) :
         /\ InstantOf(store[k].measured_at) \in FirstInstants
         /\ store[k].duration_in_traffic_seconds \in LinkerDurations }

InitA ==
  /\ now \in { t \in Instants : \A u \in Instants : u <= t }
  /\ trips \in FirstRunStores
  /\ predictions = << >>
  /\ run = NoRun
  /\ collection_log = LogOf(trips)
  /\ linkLog = NoLink
  /\ report = NoReport

NextA ==
  \/ \E h \in AuthorizationHeaders, q \in SearchParams : handleApiData(h, q)
  \/ \E h \in AuthorizationHeaders, q \in SearchParams : handleApiExport(h, q)

SpecA == InitA /\ [][NextA]_vars

(* ---------------------- generateWeekPredictions ------------------------ *)
(* The loops of generateWeekPredictions: dayOffset = 0..6, hour = 6..21.   *)
DAYS_AHEAD == 7
SlotHours_Exclusive == 6..20

SlotHours == 6..21
FirstSlotHour == CHOOSE h \in SlotHours : \A g \in SlotHours : h <= g
LastSlotHour == CHOOSE h \in SlotHours : \A g \in SlotHours : g <= h

(* The hours of a day at which a fetch of the modelled weeks may fail: the *)
(* first, a middle and the last slot of a day.                             *)
FailingHours == {6, 13, 21}

(* targetDate after setDate(getDate() + dayOffset) and setHours(hour, 0,   *)
(* 0, 0), on the clock of the runtime (UTC).                               *)
SlotInstant(start, dayOffset, hour) ==
  ((start \div MinutesPerDay) + dayOffset) * MinutesPerDay + hour * 60

(* The call of generateWeekPredictions: now = new Date(), no predictions.  *)
(* run.targetDate holds the Date object of every day begun, in order.      *)
generateWeekPredictions(routeId) ==
  /\ run.pc = "idle"
  /\ run' = [pc |-> "generating", now |-> now, routeId |-> routeId,
             dayOffset |-> 0, hour |-> FirstSlotHour, targetDate |-> << >>,
             predictions |-> << >>, failed |-> 0]
  /\ linkLog' = NoLink
  /\ report' = NoReport
  /\ UNCHANGED <<now, trips, predictions, collection_log>>

(* One slot: setHours on the day's Date object, the two fetches, and on    *)
(* success the push of two PredictionResults whose predicted_for is that   *)
(* same object (kept as its index) and whose predicted_for_local is the    *)
(* text formatted now; a rejected fetch is caught and the loop goes on.    *)
(* After the last slot of the last day the function returns.               *)
FetchSlot(outOk, inOk, seconds) ==
  /\ run.pc = "generating"
  /\ ~(outOk /\ inOk) => (run.hour \in FailingHours /\ run.failed < MaxSlotFailures)
  /\ LET target == SlotInstant(run.now, run.dayOffset, run.hour)
         object == run.dayOffset + 1
         dates == [ k \in 1..object |->
                      IF k = object THEN target ELSE run.targetDate[k] ]
         localTimeStr == predictionsFormatLocalTimestamp(target)
         pushed ==
           << [PredictionResult(run.routeId, "outbound", target,
                                "best_guess", seconds)
                 EXCEPT !.predicted_for = object],
              [PredictionResult(run.routeId, "inbound", target,
                                "best_guess", seconds)
                 EXCEPT !.predicted_for = object] >>
         lastHour == run.hour = LastSlotHour
         lastSlot == lastHour /\ run.dayOffset + 1 = DAYS_AHEAD
     IN  run' = [run EXCEPT
                   !.targetDate = dates,
                   !.predictions = IF outOk /\ inOk THEN @ \o pushed ELSE @,
                   !.failed = IF outOk /\ inOk THEN @ ELSE @ + 1,
                   !.hour = IF lastHour THEN FirstSlotHour ELSE @ + 1,
                   !.dayOffset = IF lastHour THEN @ + 1 ELSE @,
                   !.pc = IF lastSlot THEN "generated" ELSE @]
  /\ linkLog' = NoLink
  /\ report' = NoReport
  /\ UNCHANGED <<now, trips, predictions, collection_log>>

(* storePredictions(db, predictions, predictedAt, timezone) on the array   *)
(* generateWeekPredictions returned: pred.predicted_for.toISOString()      *)
(* reads the Date object as it is now.                                     *)
storeGenerated ==
  /\ run.pc = "generated"
  /\ predictions' = predictions \o
        [ k \in 1..Len(run.predictions) |->
            StoredRow([run.predictions[k] EXCEPT
                         !.predicted_for = run.targetDate[@]], now) ]
  /\ run' = [run EXCEPT !.pc = "stored"]
  /\ linkLog' = NoLink
  /\ report' = NoReport
  /\ UNCHANGED <<now, trips, collection_log>>

InitG ==
  /\ now \in FirstInstants
  /\ trips = << >>
  /\ predictions = << >>
  /\ run = NoRun
  /\ collection_log = << >>
  /\ linkLog = NoLink
  /\ report = NoReport

NextG ==
  \/ \E r \in RouteIds : generateWeekPredictions(r)
  \/ \E outOk, inOk \in BOOLEAN, s \in LinkerDurations : FetchSlot(outOk, inOk, s)
  \/ storeGenerated

SpecG == InitG /\ [][NextG]_vars

(* --------------------- fetchDirectionsWithRetry ------------------------ *)
(* What one call of fetchDirections does: it returns a result, throws a    *)
(* MapsApiError that is retryable (HTTP 5xx or 429, OVER_QUERY_LIMIT,      *)
(* UNKNOWN_ERROR) or not (any other status, NO_ROUTES, NO_LEGS), or throws *)
(* another Error (fetch or response.json() rejected).                      *)
FetchOutcomes ==
  { [ok |-> TRUE, isMapsApiError |-> FALSE, isRetryable |-> FALSE],
    [ok |-> FALSE, isMapsApiError |-> TRUE, isRetryable |-> TRUE],
    [ok |-> FALSE, isMapsApiError |-> TRUE, isRetryable |-> FALSE],
    [ok |-> FALSE, isMapsApiError |-> FALSE, isRetryable |-> FALSE] }

RETRY_DELAY_MS == 2000

(* error instanceof MapsApiError && !error.isRetryable                     *)
NotRetryable_Never(error) == FALSE

NotRetryable(error) == error.isMapsApiError /\ ~error.isRetryable

(* The call of fetchDirectionsWithRetry with its maxRetries; run holds the *)
(* loop's variables and the calls and sleeps made so far.                  *)
fetchDirectionsWithRetry(maxRetries) ==
  /\ run.pc = "idle"
  /\ run' = [pc |-> "try", maxRetries |-> maxRetries, attempt |-> 0,
             lastError |-> NULL, events |-> << >>, settled |-> NULL]
  /\ linkLog' = NoLink
  /\ report' = NoReport
  /\ UNCHANGED <<now, trips, predictions, collection_log>>

(* One iteration of the loop up to its next await: fetchDirections is      *)
(* called and settles with outcome; the loop returns the result, rethrows, *)
(* starts the sleep before the next attempt or, after the last attempt,    *)
(* leaves the loop and throws lastError.                                   *)
TryFetch(outcome) ==
  /\ run.pc = "try"
  /\ run.attempt <= run.maxRetries
  /\ LET call == [event |-> "fetchDirections", attempt |-> run.attempt,
                  outcome |-> outcome]
         called == [run EXCEPT !.events = Append(@, call)]
     IN  run' = IF outcome.ok
                THEN [called EXCEPT !.pc = "returned", !.settled = call]
                ELSE IF NotRetryable(outcome)
                THEN [called EXCEPT !.pc = "thrown", !.lastError = call,
                                    !.settled = call]
                ELSE IF run.attempt < run.maxRetries
                THEN [called EXCEPT !.pc = "sleeping", !.lastError = call]
                ELSE [called EXCEPT !.pc = "thrown", !.lastError = call,
                                    !.attempt = @ + 1, !.settled = call]
  /\ linkLog' = NoLink
  /\ report' = NoReport
  /\ UNCHANGED <<now, trips, predictions, collection_log>>

(* await sleep(retryDelayMs) is over: attempt++ and the next iteration.    *)
SleepOver ==
  /\ run.pc = "sleeping"
  /\ run' = [run EXCEPT !.pc = "try", !.attempt = @ + 1,
                        !.events = Append(@, [event |-> "sleep",
                                              attempt |-> run.attempt,
                                              ms |-> RETRY_DELAY_MS])]
  /\ linkLog' = NoLink
  /\ report' = NoReport
  /\ UNCHANGED <<now, trips, predictions, collection_log>>

NextR ==
  \/ \E m \in 0..MaxRetries : fetchDirectionsWithRetry(m)
  \/ \E o \in FetchOutcomes : TryFetch(o)
  \/ SleepOver

(* fetch settles and the timer of sleep fires.                             *)
SpecR ==
  /\ Init
  /\ [][NextR]_vars
  /\ WF_vars(\E o \in FetchOutcomes : TryFetch(o))
  /\ WF_vars(SleepOver)

TypeOK ==
  /\ now \in Instants
  /\ Len(trips) <= MaxTrips
  /\ Len(predictions) <= MaxPreds

(* ------------------- properties of the linker -------------------------- *)
(* A step of linkPredictionsToActuals: it alone leaves linkLog.op = "link" *)
IsLinkStep == linkLog'.op = "link" /\ vars' /= vars

(* Distance in minutes between a measurement and a forecast's target.      *)
Dist(t, p) ==
  LET d == InstantOf(t.measured_at) - InstantOf(p.predicted_for)
  IN  IF d >= 0 THEN d ELSE 0 - d

(* The measurements of the route and direction of prediction p.            *)
SameRouteDirection(p, store) ==
  { i \in 1..Len(store) :
      store[i].route_id = p.route_id /\ store[i].direction = p.direction }

Linked(p) == p.actual_trip_id /= NULL

(* The predictions a run for routeId at the instant T is meant to treat:   *)
(* of the route, unlinked, target instant strictly before T.               *)
PastUnlinked(p, routeId, T) ==
  /\ p.route_id = routeId
  /\ ~Linked(p)
  /\ InstantOf(p.predicted_for) < T

(* C1: when linkPredictionsToActuals(routeId) runs twice in a row with     *)
(* nothing inserted in between, the second run returns 0 and changes no    *)
(* prediction's actual_trip_id.                                            *)
C1_SecondRunReturnsZero ==
  [][ (IsLinkStep /\ linkLog.op = "link"
         /\ linkLog'.routeId = linkLog.routeId)
      => (linkLog'.changes = 0 /\ predictions' = predictions) ]_vars

(* C2: once a prediction's actual_trip_id is non-null it keeps that value  *)
(* in every later state, whatever runs, inserts and stores interleave.     *)
C2_LinkStable ==
  [][ \A i \in 1..Len(predictions) :
        Linked(predictions[i])
        => /\ i <= Len(predictions')
           /\ predictions'[i].actual_trip_id = predictions[i].actual_trip_id
    ]_vars

(* A linked prediction for which a strictly closer measurement of its      *)
(* route and direction was inserted after the one it is linked to.         *)
C2_Witness ==
  \E i \in 1..Len(predictions) :
     /\ Linked(predictions[i])
     /\ \E j \in SameRouteDirection(predictions[i], trips) :
          /\ j > predictions[i].actual_trip_id
          /\ Dist(trips[j], predictions[i])
               < Dist(trips[predictions[i].actual_trip_id], predictions[i])

(* C3: every linked prediction references a measurement of its own route   *)
(* and direction that is at most 30 minutes from its predicted_for.        *)
C3_Tolerance ==
  \A i \in 1..Len(predictions) :
     Linked(predictions[i])
     => /\ predictions[i].actual_trip_id \in 1..Len(trips)
        /\ LET t == trips[predictions[i].actual_trip_id]
           IN  /\ t.route_id = predictions[i].route_id
               /\ t.direction = predictions[i].direction
               /\ Dist(t, predictions[i]) <= ToleranceMinutes

(* A run has just left a prediction unlinked whose only measurement is     *)
(* farther than 30 minutes away, while another prediction is linked.       *)
C3_Witness ==
  /\ linkLog.op = "link"
  /\ \E i \in linkLog.updated :
       /\ ~Linked(predictions[i])
       /\ SameRouteDirection(predictions[i], trips) /= {}
       /\ \A j \in SameRouteDirection(predictions[i], trips) :
            Dist(trips[j], predictions[i]) > ToleranceMinutes
  /\ \E i \in 1..Len(predictions) : Linked(predictions[i])

(* C4: the rows a run for routeId at the instant T selects are exactly the *)
(* predictions of routeId that are unlinked and whose predicted_for is     *)
(* strictly earlier than T.                                                *)
C4_Candidates ==
  [][ IsLinkStep
      => linkLog'.updated =
           { i \in 1..Len(predictions) :
               PastUnlinked(predictions[i], linkLog'.routeId, now) } ]_vars

(* C5: the number a run returns is the number of predictions whose         *)
(* actual_trip_id went from unset to set during the run.                   *)
C5_ReturnValue ==
  [][ IsLinkStep
      => linkLog'.changes =
           Cardinality({ i \in 1..Len(predictions) :
                           ~Linked(predictions[i]) /\ Linked(predictions'[i]) })
    ]_vars

(* C6: when a run links a prediction to measurement m, no measurement of   *)
(* the same route and direction in the store is strictly closer to the     *)
(* prediction's predicted_for than m.                                      *)
C6_Nearest ==
  [][ \A i \in 1..Len(predictions) :
        (~Linked(predictions[i]) /\ Linked(predictions'[i]))
        => \A j \in SameRouteDirection(predictions[i], trips) :
             Dist(trips[j], predictions[i])
               >= Dist(trips[predictions'[i].actual_trip_id], predictions[i])
    ]_vars

(* A prediction linked to one measurement while a farther one of its route *)
(* and direction, also within tolerance, was inserted before it.           *)
C6_Witness ==
  \E i \in 1..Len(predictions) :
     /\ Linked(predictions[i])
     /\ \E j \in SameRouteDirection(predictions[i], trips) :
          /\ j < predictions[i].actual_trip_id
          /\ Dist(trips[j], predictions[i]) <= ToleranceMinutes
          /\ Dist(trips[j], predictions[i])
               > Dist(trips[predictions[i].actual_trip_id], predictions[i])

(* C7: a row a run selects whose only measurement of its route and         *)
(* direction is exactly 30 minutes from predicted_for is linked to it by   *)
(* the run; one whose only such measurement is 31 minutes away stays       *)
(* unlinked.                                                               *)
C7_Boundary ==
  [][ IsLinkStep
      => \A i \in linkLog'.updated :
           LET p == predictions[i]
               S == SameRouteDirection(p, trips)
           IN  Cardinality(S) = 1
               => \A j \in S :
                    /\ Dist(trips[j], p) = ToleranceMinutes
                         => predictions'[i].actual_trip_id = j
                    /\ Dist(trips[j], p) = ToleranceMinutes + 1
                         => ~Linked(predictions'[i])
    ]_vars

(* C8: a past unlinked prediction of the route for which a measurement of  *)
(* its route and direction within 30 minutes of predicted_for is in the    *)
(* store is linked by the next run.                                        *)
C8_LinkedByNextRun ==
  [][ IsLinkStep
      => \A i \in 1..Len(predictions) :
           ( /\ PastUnlinked(predictions[i], linkLog'.routeId, now)
             /\ \E j \in SameRouteDirection(predictions[i], trips) :
                  Dist(trips[j], predictions[i]) <= ToleranceMinutes )
           => Linked(predictions'[i])
    ]_vars

(* C9: a stored trips row is never updated or deleted; the table only      *)
(* grows.                                                                  *)
C9_AppendOnly ==
  [][ /\ Len(trips') >= Len(trips)
      /\ \A i \in 1..Len(trips) : trips'[i] = trips[i] ]_vars

(* A run has linked a prediction to a stored row, and a later collector    *)
(* run at the same instant had its INSERT rejected by the unique index.    *)
C9_Witness ==
  /\ \E i \in 1..Len(predictions) : Linked(predictions[i])
  /\ run.pc = "collecting"
  /\ \E k \in 1..Len(run.results) :
       /\ ~run.results[k].success
       /\ \E j \in 1..Len(trips) :
            /\ trips[j].measured_at = toISOString(run.now)
            /\ trips[j].direction = run.results[k].direction
            /\ trips[j].route_id = run.results[k].routeId

(* ------------------- properties of the queries ------------------------- *)
RECURSIVE SumSampleCount(_)
SumSampleCount(rows) ==
  IF rows = {} THEN 0
  ELSE LET r == CHOOSE x \in rows : TRUE
       IN  r.sample_count + SumSampleCount(rows \ {r})

(* C10: for every FilterSpec the count of getTotalSamples equals the sum   *)
(* of sample_count over the rows of getStatisticalSummary and over the     *)
(* rows of getHourlyVariance.                                              *)
C10_UniformFilter ==
  report.op = "query"
  => /\ report.total = SumSampleCount(report.summary)
     /\ report.total = SumSampleCount(report.hourly)

(* The measurements a FilterSpec selects: each predicate that is set       *)
(* holds of the row (dates by the local calendar day of the measurement).  *)
Selected(row, f) ==
  /\ f.startDate /= NoDate => row.measured_at_local[1] >= f.startDate
  /\ f.endDate /= NoDate => row.measured_at_local[1] <= f.endDate
  /\ f.direction /= "none" => row.direction = f.direction
  /\ f.routeId /= "none" => row.route_id = f.routeId
  /\ f.excludeHolidays => row.is_holiday = 0
  /\ f.weekdaysOnly => row.day_of_week \in 1..5

(* C11: when the FilterSpec has weekdaysOnly = true, only measurements of  *)
(* Monday to Friday contribute to the results of the data and analytics    *)
(* queries: no count exceeds the number of Monday-to-Friday measurements.  *)
C11_WeekdaysOnly ==
  (report.op = "query" /\ report.filters.weekdaysOnly)
  => LET weekdays == Cardinality({ i \in 1..Len(trips) :
                                      trips[i].day_of_week \in 1..5 })
     IN  /\ report.total <= weekdays
         /\ SumSampleCount(report.summary) <= weekdays
         /\ SumSampleCount(report.hourly) <= weekdays

(* C17: for every FilterSpec and direction the sample_count values of the  *)
(* getHourlyVariance rows of the direction sum to the number of selected   *)
(* measurements of the direction, and every (hour_local, direction) with a *)
(* selected measurement has exactly one row.                               *)
C17_HourlyCounts ==
  report.op = "query"
  => LET sel == { i \in 1..Len(trips) : Selected(trips[i], report.filters) }
     IN  /\ \A d \in Directions :
              SumSampleCount({ h \in report.hourly : h.direction = d })
                = Cardinality({ i \in sel : trips[i].direction = d })
         /\ \A i \in sel :
              Cardinality({ h \in report.hourly :
                              /\ h.hour = trips[i].hour_local
                              /\ h.direction = trips[i].direction }) = 1

(* --------------- properties of the prediction accuracy ----------------- *)
(* Prediction i of a route and model is linked to a stored measurement and *)
(* was made strictly before its target time.                               *)
Participates(i, routeId, trafficModel) ==
  /\ predictions[i].route_id = routeId
  /\ predictions[i].traffic_model = trafficModel
  /\ predictions[i].actual_trip_id \in 1..Len(trips)
  /\ InstantOf(predictions[i].predicted_at)
       < InstantOf(predictions[i].predicted_for)

(* The participating predictions of the group of one response row.         *)
GroupOf(row) ==
  { i \in 1..Len(predictions) :
      /\ Participates(i, report.routeId, report.trafficModel)
      /\ predictions[i].direction = row.direction
      /\ predictions[i].day_of_week = row.day_of_week
      /\ predictions[i].hour_local = row.hour_local }

C20_BiasSign ==
  report.op = "accuracy"
  => \A row \in report.rows :
       LET g == GroupOf(row)
           n == Cardinality(g)
           predicted(i) == predictions[i].predicted_duration_seconds
           actual(i) ==
             trips[predictions[i].actual_trip_id].duration_in_traffic_seconds
           bias == SumFn([ i \in g |-> predicted(i) - actual(i) ])
           error == SumFn([ i \in g |-> Abs(predicted(i) - actual(i)) ])
       IN  /\ Abs(6 * n * row.avg_bias_minutes - bias) <= 3 * n
           /\ Abs(6 * n * row.avg_error_minutes - error) <= 3 * n
           /\ \A i \in g :
                n = 1 =>
                  /\ (predicted(i) = 6000 /\ actual(i) = 4800)
                       => /\ row.avg_bias_minutes = 200
                          /\ row.avg_error_minutes = 200
                  /\ (predicted(i) = 4800 /\ actual(i) = 6000)
                       => /\ row.avg_bias_minutes = 0 - 200
                          /\ row.avg_error_minutes = 200

(* A response with a group of one prediction of 80 minutes whose           *)
(* measurement took 100 minutes.                                           *)
C20_Witness ==
  /\ report.op = "accuracy"
  /\ \E row \in report.rows :
       /\ row.prediction_count = 1
       /\ row.avg_predicted_minutes = 800
       /\ row.avg_actual_minutes = 1000
       /\ row.avg_bias_minutes = 0 - 200

(* ------------------ properties of the statistics ----------------------- *)
(* The rows of the store that a statistics request's FilterSpec selects.   *)
FilteredSamples ==
  { i \in 1..Len(trips) :
      report.filters.direction \in {"none", trips[i].direction} }

(* The request is on the store of the samples 60, 70, .., 120 minutes.     *)
ScenarioReport ==
  /\ report.op = "analytics"
  /\ trips = StoreOf(ScenarioSamples,
                     [ k \in 1..Len(ScenarioSamples) |-> "outbound" ])
  /\ report.patterns /= << >>

(* The boundaries of the response are 80, 90, 100 and 120 minutes.         *)
ScenarioThresholds ==
  LET max(t) == report.patterns[t].max_threshold
  IN  /\ max("very_fast").num = 80 * max("very_fast").den
      /\ max("fast").num = 90 * max("fast").den
      /\ max("moderate").num = 100 * max("moderate").den
      /\ max("slow").num = 120 * max("slow").den

OccurrenceCounts ==
  [ t \in PatternTypes |-> report.patterns[t].occurrence_count ]

(* C12 as stated: for the samples 60, 70, .., 120 minutes of one direction *)
(* getTrafficPatterns uses the boundaries 80, 90, 100, 120 and reports     *)
(* very_fast = 2, fast = 1, moderate = 1, slow = 2, very_slow = 1.         *)
C12_ScenarioCounts ==
  ScenarioReport
  => /\ ScenarioThresholds
     /\ OccurrenceCounts = [ t \in PatternTypes |->
          CASE t = "very_fast" -> 2 [] t = "fast" -> 1 [] t = "moderate" -> 1
            [] t = "slow" -> 2 [] OTHER -> 1 ]

(* C12 amended: for the samples 60, 70, .., 120 minutes of one direction   *)
(* getTrafficPatterns uses the boundaries 80, 90, 100, 120 and reports     *)
(* very_fast = 3, fast = 1, moderate = 1, slow = 2, very_slow = 0 (each    *)
(* boundary belongs to the lower category).                                *)
C12_ScenarioCountsInclusive ==
  ScenarioReport
  => /\ ScenarioThresholds
     /\ OccurrenceCounts = [ t \in PatternTypes |->
          CASE t = "very_fast" -> 3 [] t = "fast" -> 1 [] t = "moderate" -> 1
            [] t = "slow" -> 2 [] OTHER -> 0 ]

(* A response for the scenario's store that counts the sample of 80        *)
(* minutes with the very fast ones.                                        *)
C12_Witness ==
  /\ ScenarioReport
  /\ report.patterns["very_fast"].occurrence_count = 3

C14_PercentageSum ==
  (report.op = "analytics" /\ FilteredSamples /= {})
  => Abs(SumFn([ t \in PatternTypes |-> report.patterns[t].percentage ])
           - 1000) <= 5

(* A response whose rounded percentages do not sum to exactly 100.         *)
C14_Witness ==
  /\ report.op = "analytics"
  /\ FilteredSamples /= {}
  /\ SumFn([ t \in PatternTypes |-> report.patterns[t].percentage ]) /= 1000

(* C15: for a non-empty ascending array and p in {50, 75, 80, 90, 95},     *)
(* percentile returns the order statistic at index p / 100 * (n - 1) when  *)
(* that is an integer and else the value that lies the fractional part of  *)
(* the way from the lower to the upper neighbour (values in hundredths of  *)
(* a second); 10, 20, .., 50 minutes give p50 = 30 and p90 = 46, p50 of an *)
(* even-length array is the mean of the two middle values, and a           *)
(* one-element array gives its element.                                    *)
C15_Percentile ==
  (report.op = "percentile" /\ Len(report.sorted) > 0)
  => LET sorted == report.sorted
         n == Len(sorted)
         whole == (report.p * (n - 1)) \div 100
         part == (report.p * (n - 1)) % 100
     IN  /\ \A k \in 1..(n - 1) : sorted[k] <= sorted[k + 1]
         /\ part = 0 => report.value = 100 * sorted[whole + 1]
         /\ part /= 0 =>
              report.value = 100 * sorted[whole + 1]
                               + part * (sorted[whole + 2] - sorted[whole + 1])
         /\ (sorted = KnownArray /\ report.p = 50) => report.value = 100 * 1800
         /\ (sorted = KnownArray /\ report.p = 90) => report.value = 100 * 2760
         /\ (report.p = 50 /\ n % 2 = 0) =>
              2 * report.value
                = 100 * (sorted[n \div 2] + sorted[(n \div 2) + 1])
         /\ n = 1 => report.value = 100 * sorted[1]

(* percentile of 10, 20, .., 50 minutes at p = 90 is 46 minutes.           *)
C15_Witness ==
  /\ report.op = "percentile"
  /\ report.sorted = KnownArray
  /\ report.p = 90
  /\ report.value = 100 * 2760

(* C16: for every direction the duration_minutes of getReliabilityMetrics  *)
(* do not decrease as the confidence level increases, after the rounding   *)
(* to whole minutes.                                                       *)
C16_Monotonic ==
  report.op = "analytics"
  => \A a \in report.reliability, b \in report.reliability :
       (a.direction = b.direction /\ a.confidence_level <= b.confidence_level)
       => a.duration_minutes <= b.duration_minutes

(* A response whose curve rises between two neighbouring levels and is     *)
(* flat between two others.                                                *)
C16_Witness ==
  /\ report.op = "analytics"
  /\ \E a \in report.reliability, b \in report.reliability,
        c \in report.reliability :
       /\ a.direction = b.direction /\ b.direction = c.direction
       /\ a.confidence_level = 50 /\ b.confidence_level = 75
       /\ c.confidence_level = 80
       /\ a.duration_minutes < b.duration_minutes
       /\ b.duration_minutes = c.duration_minutes

Contradictory(f) ==
  f.startDate /= NoDate /\ f.endDate /= NoDate /\ f.endDate < f.startDate

(* C21: a request whose FilterSpec has endDate earlier than startDate      *)
(* fails with a validation error before any measurement query is executed. *)
C21_MalformedFilterRejected ==
  (report.op \in {"data", "export"} /\ report.parsed
     /\ Contradictory(report.filters))
  => (report.status \in 400..499 /\ report.queries = << >>)

(* C24: a request to /api/data or /api/export whose Authorization header   *)
(* is absent, is not Bearer followed by one token, or carries another      *)
(* token than API_ACCESS_KEY gets 401 and no trips query is executed.      *)
C24_Unauthorized ==
  (report.op \in {"data", "export"}
     /\ report.authorization /= << "Bearer", " " >> \o API_ACCESS_KEY)
  => (report.status = 401 /\ report.queries = << >>)

(* --------------------- properties of the collector --------------------- *)
ActiveRouteIds ==
  { ROUTES[i].id : i \in { j \in 1..Len(ROUTES) : ROUTES[j].active /= "false" } }

InWindow(hour) == START_HOUR <= hour /\ hour < END_HOUR

(* C22: handleScheduled collects only when the local hour h it reads has   *)
(* START_HOUR <= h < END_HOUR; a run outside the window makes no           *)
(* directions-API call, inserts no trips row and writes no collection_log  *)
(* row.                                                                    *)
C22_CollectionWindow ==
  [][ /\ (run.pc /= "collecting" /\ run'.pc = "collecting")
           => InWindow(getHours(run'.localTime))
      /\ (run' /= run /\ run'.pc = "skipped")
           => /\ ~InWindow(getHours(run'.localTime))
              /\ trips' = trips
              /\ collection_log' = collection_log
              /\ run'.apiCallsMade = 0
      /\ (\/ trips' /= trips
          \/ collection_log' /= collection_log
          \/ run'.apiCallsMade > run.apiCallsMade)
           => (run.pc = "collecting" /\ InWindow(getHours(run.localTime)))
    ]_vars

(* A run at 21:00 local returned at once, after a run inside the window    *)
(* had written its log row.                                                *)
C22_Witness ==
  /\ run.pc = "skipped"
  /\ getHours(run.localTime) = END_HOUR
  /\ Len(collection_log) = 1

(* C26: a run inside the window attempts exactly the pairs (route,         *)
(* direction) of the active routes and never an inactive route; an attempt *)
(* inserts one trips row for its pair when its fetch and its insert        *)
(* succeed and nothing otherwise, and a failed attempt never prevents the  *)
(* remaining attempts.                                                     *)
C26_FailureIsolation ==
  [][ /\ (run.pc /= "collecting" /\ run'.pc = "collecting")
           => /\ { run'.queue[k] : k \in 1..Len(run'.queue) }
                   = ActiveRouteIds \X Directions
              /\ Len(run'.queue) = 2 * Cardinality(ActiveRouteIds)
      /\ (run.pc = "collecting" /\ run'.pc = "collecting" /\ run' /= run)
           => LET res == run'.results[Len(run'.results)]
              IN  /\ run'.queue = Tail(run.queue)
                  /\ Len(run'.results) = Len(run.results) + 1
                  /\ res.routeId = Head(run.queue)[1]
                  /\ res.direction = Head(run.queue)[2]
                  /\ res.success <=> res.error = ""
                  /\ res.error = "insert"
                       => \E j \in 1..Len(trips) :
                            /\ trips[j].measured_at = toISOString(run.now)
                            /\ trips[j].route_id = res.routeId
                            /\ trips[j].direction = res.direction
                  /\ IF res.success
                     THEN /\ Len(trips') = Len(trips) + 1
                          /\ SubSeq(trips', 1, Len(trips)) = trips
                          /\ trips'[Len(trips')].route_id = res.routeId
                          /\ trips'[Len(trips')].direction = res.direction
                     ELSE trips' = trips
      /\ trips' /= trips => (run.pc = "collecting" /\ run'.pc = "collecting")
      /\ (run.pc = "collecting" /\ run'.pc /= "collecting")
           => run.queue = << >>
    ]_vars

(* The outbound attempt of a run failed and its inbound attempt, made all  *)
(* the same, inserted its row.                                             *)
C26_Witness ==
  /\ run.pc = "collecting"
  /\ run.queue = << >>
  /\ Len(run.results) = 2
  /\ ~run.results[1].success
  /\ run.results[2].success
  /\ \E j \in 1..Len(trips) :
       /\ trips[j].measured_at = toISOString(run.now)
       /\ trips[j].direction = "inbound"

C30_BucketKeys ==
  \A i \in 1..Len(trips) :
     /\ trips[i].hour_local = trips[i].measured_at_local[3] \div 60
     /\ trips[i].day_of_week = trips[i].measured_at_local[1] % 7

(* ----------------- properties of the retry loop ------------------------ *)
Calls == SelectSeq(run.events, LAMBDA e : e.event = "fetchDirections")
Sleeps == SelectSeq(run.events, LAMBDA e : e.event = "sleep")
InRetryLoop == run.pc \in {"try", "sleeping", "returned", "thrown"}
RetryLoopDone == run.pc \in {"returned", "thrown"}

(* What the loop has done so far, and how it ended, is what C28 allows.    *)
C28_Allowed ==
  InRetryLoop =>
    /\ Len(Calls) <= run.maxRetries + 1
    /\ \A k \in 1..Len(run.events) :
         LET e == run.events[k]
         IN  /\ e.event = "fetchDirections" /\ e.outcome.ok
                  => (k = Len(run.events) /\ run.pc = "returned")
             /\ (e.event = "fetchDirections" /\ e.outcome.isMapsApiError
                   /\ ~e.outcome.isRetryable)
                  => (k = Len(run.events) /\ run.pc = "thrown")
             /\ e.event = "sleep"
                  => /\ e.ms = RETRY_DELAY_MS
                     /\ k > 1
                     /\ run.events[k - 1].event = "fetchDirections"
                     /\ ~run.events[k - 1].outcome.ok
                     /\ ~(run.events[k - 1].outcome.isMapsApiError
                            /\ ~run.events[k - 1].outcome.isRetryable)
                     /\ Len(SelectSeq(SubSeq(run.events, 1, k),
                                      LAMBDA x : x.event = "fetchDirections"))
                          <= run.maxRetries
             /\ (e.event = "fetchDirections" /\ k > 1)
                  => run.events[k - 1].event = "sleep"
    /\ run.pc = "returned"
         => /\ Len(Calls) > 0
            /\ run.settled = Calls[Len(Calls)]
            /\ run.settled.outcome.ok
    /\ run.pc = "thrown"
         => /\ Len(Calls) > 0
            /\ run.settled = Calls[Len(Calls)]
            /\ ~run.settled.outcome.ok
            /\ run.events[Len(run.events)].event = "fetchDirections"
            /\ \/ run.settled.outcome.isMapsApiError
                    /\ ~run.settled.outcome.isRetryable
               \/ Len(Calls) = run.maxRetries + 1

(* C28: fetchDirectionsWithRetry calls fetchDirections at most             *)
(* maxRetries + 1 times and always terminates; it returns the first        *)
(* successful result without further calls, rethrows a MapsApiError that   *)
(* is not retryable at once, sleeps retryDelayMs once before every retry   *)
(* and only after another failure, does not sleep after the last attempt,  *)
(* and after maxRetries + 1 failures throws the error of the last attempt. *)
C28_RetryLoop ==
  /\ []C28_Allowed
  /\ (run.pc \in {"try", "sleeping"}) ~> RetryLoopDone

(* A call with maxRetries = 2 failed twice, slept twice and returned the   *)
(* result of its third attempt.                                            *)
C28_Witness ==
  /\ run.pc = "returned"
  /\ run.maxRetries = 2
  /\ Len(Calls) = 3
  /\ Len(Sleeps) = 2

(* ---------------------- C23, C25, C29: generator ----------------------- *)
Generating == run.pc \in {"generating", "generated"}

(* The local text of the slot of day d, hour h, of a week begun at start.  *)
SlotLocal(start, d, h) ==
  SqlDatetime((((start \div MinutesPerDay) + d) * MinutesPerDay + h * 60)
                + TzOffsetMinutes)

(* C23: generateWeekPredictions holds, and in the end returns, exactly two *)
(* predictions (outbound then inbound, model best_guess) for each of the   *)
(* 7 x 16 day/hour slots gone through whose two fetches both succeeded,    *)
(* none for a slot with a failed fetch, and a failed slot does not stop    *)
(* the later slots: it returns only after all 112 slots, with 224          *)
(* predictions when no fetch failed.                                       *)
C23_WeekPredictionCount ==
  Generating =>
    LET done == run.dayOffset * 16 + (run.hour - 6)
        n == Len(run.predictions)
    IN  /\ n = 2 * (done - run.failed)
        /\ run.pc = "generated" <=> done = 7 * 16
        /\ (run.pc = "generated" /\ run.failed = 0) => n = 224
        /\ \A k \in 1..(n \div 2) :
             LET out == run.predictions[2 * k - 1]
                 inb == run.predictions[2 * k]
             IN  /\ out.direction = "outbound"
                 /\ inb.direction = "inbound"
                 /\ out.traffic_model = "best_guess"
                 /\ inb.traffic_model = "best_guess"
                 /\ out.route_id = run.routeId
                 /\ inb.route_id = run.routeId
                 /\ out.predicted_for_local = inb.predicted_for_local
                 /\ LET t == InstantOf(out.predicted_for_local) - TzOffsetMinutes
                        d == (t \div MinutesPerDay) - (run.now \div MinutesPerDay)
                        h == (t % MinutesPerDay) \div 60
                    IN  /\ d \in 0..6
                        /\ h \in 6..21
                        /\ d * 16 + (h - 6) < done
                        /\ out.predicted_for_local = SlotLocal(run.now, d, h)
                 /\ k > 1 => StrLess(run.predictions[2 * k - 2].predicted_for_local,
                                     out.predicted_for_local)

(* A week in which the fetches of the very first slot failed: the other    *)
(* 111 slots were still gone through and gave 222 predictions.             *)
C23_Witness ==
  /\ run.pc = "generated"
  /\ run.failed = 1
  /\ Len(run.predictions) = 222
  /\ run.predictions[1].predicted_for_local = SlotLocal(run.now, 0, 7)

(* C25: every stored prediction of generateWeekPredictions has the         *)
(* predicted_for instant of its own slot, the one its predicted_for_local  *)
(* describes, so predictions of different hours never share predicted_for. *)
C25_PerSlotTarget ==
  run.pc = "stored" =>
    \A i \in 1..Len(predictions) :
      /\ InstantOf(predictions[i].predicted_for)
           = InstantOf(predictions[i].predicted_for_local) - TzOffsetMinutes
      /\ \A j \in 1..Len(predictions) :
           predictions[i].predicted_for_local # predictions[j].predicted_for_local
             => predictions[i].predicted_for # predictions[j].predicted_for

(* C29: every row storePredictions writes has is_holiday equal to the      *)
(* holiday status of the local date of its predicted_for, and day_of_week  *)
(* and hour_local equal to the weekday and hour of its predicted_for_local.*)
C29_PredictionHolidayKey ==
  \A i \in 1..Len(predictions) :
    LET p == predictions[i]
    IN  /\ p.is_holiday
             = (IF isHoliday(getLocalTime(InstantOf(p.predicted_for)))
                THEN 1 ELSE 0)
        /\ p.day_of_week = getDay(InstantOf(p.predicted_for_local))
        /\ p.hour_local = getHours(InstantOf(p.predicted_for_local))

====
